---- MODULE Spec2Model ----
(***************************************************************************)
(* Interpreted text roles of docutils/parsers/rst/roles.py: the canonical  *)
(* role registry, the local role registry, the lookup function role(), the *)
(* registration functions and the standard role functions.                 *)
(*                                                                         *)
(* Python strings are sequences of one-character strings, so that          *)
(* str.lower() and int() are computed character by character.  A dict of   *)
(* the registries is a function whose DOMAIN is its key set; an attribute  *)
(* dict is a set of <<key, value>> pairs.                                  *)
(***************************************************************************)
EXTENDS Integers, Sequences, FiniteSets, TLC

VARIABLES
  _role_registry,  \* canonical role name -> role function
  _roles,          \* local / language-dependent role name -> role function
  last,            \* the registry call that returned last: arguments, locals, result
  previous,        \* history: for each canonical name registered after import,
                   \* the role function its latest registration replaced
                   \* and the role function it was replaced by
  ops,             \* number of registry calls made so far
  call             \* an invocation of a role function: arguments and result

vars == <<_role_registry, _roles, last, previous, ops, call>>

\* Bounds of the model.
MaxOps == 3
MaxTextLen == 5

----------------------------------------------------------------------------
\* Strings

UpperLetters ==
  <<"A","B","C","D","E","F","G","H","I","J","K","L","M",
    "N","O","P","Q","R","S","T","U","V","W","X","Y","Z">>

LowerLetters ==
  <<"a","b","c","d","e","f","g","h","i","j","k","l","m",
    "n","o","p","q","r","s","t","u","v","w","x","y","z">>

LowerChar(c) ==
  IF \E i \in 1..Len(UpperLetters) : UpperLetters[i] = c
  THEN LowerLetters[CHOOSE i \in 1..Len(UpperLetters) : UpperLetters[i] = c]
  ELSE c

RECURSIVE lower(_)
\* str.lower()
lower(s) == IF s = <<>> THEN <<>> ELSE <<LowerChar(Head(s))>> \o lower(Tail(s))

\* Python's None where a string is expected (canonicalname = None).
None == <<"None">>

\* Truth value of a string-or-None: None and '' are false.
Truthy(s) == s # None /\ s # <<>>

\* dict(pairs): the mapping with the given <<key, value>> items.
Dict(pairs) ==
  [k \in {p[1] : p \in pairs} |-> (CHOOSE p \in pairs : p[1] = k)[2]]

----------------------------------------------------------------------------
\* Role functions.  A role function is a function value; the two closures
\* made by register_generic_role and register_custom_role carry the default
\* value of their sixth parameter (nc=node_class, atts=attributes).

NoneFn == [kind |-> "None", node_class |-> "", attributes |-> {}]

GenericRoleFn(node_class) ==
  [kind |-> "generic", node_class |-> node_class, attributes |-> {}]

CustomRoleFn(attributes) ==
  [kind |-> "custom", node_class |-> "", attributes |-> attributes]

\* A reference to one of the module-level role functions.
Function(name) == [kind |-> name, node_class |-> "", attributes |-> {}]

DEFAULT_INTERPRETED_ROLE == <<"t","i","t","l","e","-","r","e","f","e","r","e","n","c","e">>

----------------------------------------------------------------------------
\* Registration functions, as functions of the dict they assign into.

\* register_canonical_role that keeps an entry already there
\* (_role_registry.setdefault(name, role_fn)).
register_canonical_role_KeepFirst(registry, name, role_fn) ==
  [k \in DOMAIN registry \cup {name} |->
     IF k \in DOMAIN registry THEN registry[k] ELSE role_fn]

\* _role_registry[name] = role_fn
register_canonical_role(registry, name, role_fn) ==
  [k \in DOMAIN registry \cup {name} |-> IF k = name THEN role_fn ELSE registry[k]]

\* register_local_role that starts a new dict (_roles = {name: role_fn}).
register_local_role_Reset(roles, name, role_fn) ==
  [k \in {name} |-> role_fn]

\* _roles[name] = role_fn
register_local_role(roles, name, role_fn) ==
  [k \in DOMAIN roles \cup {name} |-> IF k = name THEN role_fn ELSE roles[k]]

register_generic_role(registry, canonical_name, node_class) ==
  register_canonical_role(registry, canonical_name, GenericRoleFn(node_class))

register_custom_role(roles, local_name, attributes) ==
  register_local_role(roles, local_name, CustomRoleFn(attributes))

\* The module-level registrations, in source order.
StandardRoles ==
  << <<<<"a","b","b","r","e","v","i","a","t","i","o","n">>, GenericRoleFn("abbreviation")>>,
     <<<<"a","c","r","o","n","y","m">>, GenericRoleFn("acronym")>>,
     <<<<"e","m","p","h","a","s","i","s">>, GenericRoleFn("emphasis")>>,
     <<<<"l","i","t","e","r","a","l">>, GenericRoleFn("literal")>>,
     <<<<"s","t","r","o","n","g">>, GenericRoleFn("strong")>>,
     <<<<"s","u","b","s","c","r","i","p","t">>, GenericRoleFn("subscript")>>,
     <<<<"s","u","p","e","r","s","c","r","i","p","t">>, GenericRoleFn("superscript")>>,
     <<<<"t","i","t","l","e","-","r","e","f","e","r","e","n","c","e">>, GenericRoleFn("title_reference")>>,
     <<<<"p","e","p","-","r","e","f","e","r","e","n","c","e">>, Function("pep_reference_role")>>,
     <<<<"r","f","c","-","r","e","f","e","r","e","n","c","e">>, Function("rfc_reference_role")>>,
     <<<<"i","n","d","e","x">>, Function("unimplemented_role")>>,
     <<<<"n","a","m","e","d","-","r","e","f","e","r","e","n","c","e">>, Function("unimplemented_role")>>,
     <<<<"a","n","o","n","y","m","o","u","s","-","r","e","f","e","r","e","n","c","e">>, Function("unimplemented_role")>>,
     <<<<"u","r","i","-","r","e","f","e","r","e","n","c","e">>, Function("unimplemented_role")>>,
     <<<<"f","o","o","t","n","o","t","e","-","r","e","f","e","r","e","n","c","e">>, Function("unimplemented_role")>>,
     <<<<"c","i","t","a","t","i","o","n","-","r","e","f","e","r","e","n","c","e">>, Function("unimplemented_role")>>,
     <<<<"s","u","b","s","t","i","t","u","t","i","o","n","-","r","e","f","e","r","e","n","c","e">>, Function("unimplemented_role")>>,
     <<<<"t","a","r","g","e","t">>, Function("unimplemented_role")>>,
     <<<<"r","e","s","t","r","u","c","t","u","r","e","d","t","e","x","t","-","u","n","i","m","p","l","e","m","e","n","t","e","d","-","r","o","l","e">>, Function("unimplemented_role")>> >>

RECURSIVE RegisterAll(_, _)
RegisterAll(registry, regs) ==
  IF regs = <<>> THEN registry
  ELSE RegisterAll(register_canonical_role(registry, Head(regs)[1], Head(regs)[2]),
                   Tail(regs))

EmptyDict == [k \in {} |-> NoneFn]

\* _role_registry once the module is imported.
InitialRegistry == RegisterAll(EmptyDict, StandardRoles)

----------------------------------------------------------------------------
\* Language modules.

\* roles of docutils.parsers.rst.languages.en, the fallback language module.
EnglishRoleTable ==
  { <<<<"a","b","b","r","e","v","i","a","t","i","o","n">>, <<"a","b","b","r","e","v","i","a","t","i","o","n">>>>,
    <<<<"a","b">>, <<"a","b","b","r","e","v","i","a","t","i","o","n">>>>,
    <<<<"a","c","r","o","n","y","m">>, <<"a","c","r","o","n","y","m">>>>,
    <<<<"a","c">>, <<"a","c","r","o","n","y","m">>>>,
    <<<<"i","n","d","e","x">>, <<"i","n","d","e","x">>>>,
    <<<<"i">>, <<"i","n","d","e","x">>>>,
    <<<<"s","u","b","s","c","r","i","p","t">>, <<"s","u","b","s","c","r","i","p","t">>>>,
    <<<<"s","u","b">>, <<"s","u","b","s","c","r","i","p","t">>>>,
    <<<<"s","u","p","e","r","s","c","r","i","p","t">>, <<"s","u","p","e","r","s","c","r","i","p","t">>>>,
    <<<<"s","u","p">>, <<"s","u","p","e","r","s","c","r","i","p","t">>>>,
    <<<<"t","i","t","l","e","-","r","e","f","e","r","e","n","c","e">>, <<"t","i","t","l","e","-","r","e","f","e","r","e","n","c","e">>>>,
    <<<<"t","i","t","l","e">>, <<"t","i","t","l","e","-","r","e","f","e","r","e","n","c","e">>>>,
    <<<<"t">>, <<"t","i","t","l","e","-","r","e","f","e","r","e","n","c","e">>>>,
    <<<<"p","e","p","-","r","e","f","e","r","e","n","c","e">>, <<"p","e","p","-","r","e","f","e","r","e","n","c","e">>>>,
    <<<<"p","e","p">>, <<"p","e","p","-","r","e","f","e","r","e","n","c","e">>>>,
    <<<<"r","f","c","-","r","e","f","e","r","e","n","c","e">>, <<"r","f","c","-","r","e","f","e","r","e","n","c","e">>>>,
    <<<<"r","f","c">>, <<"r","f","c","-","r","e","f","e","r","e","n","c","e">>>>,
    <<<<"e","m","p","h","a","s","i","s">>, <<"e","m","p","h","a","s","i","s">>>>,
    <<<<"s","t","r","o","n","g">>, <<"s","t","r","o","n","g">>>>,
    <<<<"l","i","t","e","r","a","l">>, <<"l","i","t","e","r","a","l">>>>,
    <<<<"n","a","m","e","d","-","r","e","f","e","r","e","n","c","e">>, <<"n","a","m","e","d","-","r","e","f","e","r","e","n","c","e">>>>,
    <<<<"a","n","o","n","y","m","o","u","s","-","r","e","f","e","r","e","n","c","e">>, <<"a","n","o","n","y","m","o","u","s","-","r","e","f","e","r","e","n","c","e">>>>,
    <<<<"f","o","o","t","n","o","t","e","-","r","e","f","e","r","e","n","c","e">>, <<"f","o","o","t","n","o","t","e","-","r","e","f","e","r","e","n","c","e">>>>,
    <<<<"c","i","t","a","t","i","o","n","-","r","e","f","e","r","e","n","c","e">>, <<"c","i","t","a","t","i","o","n","-","r","e","f","e","r","e","n","c","e">>>>,
    <<<<"s","u","b","s","t","i","t","u","t","i","o","n","-","r","e","f","e","r","e","n","c","e">>, <<"s","u","b","s","t","i","t","u","t","i","o","n","-","r","e","f","e","r","e","n","c","e">>>>,
    <<<<"t","a","r","g","e","t">>, <<"t","a","r","g","e","t">>>>,
    <<<<"u","r","i","-","r","e","f","e","r","e","n","c","e">>, <<"u","r","i","-","r","e","f","e","r","e","n","c","e">>>>,
    <<<<"u","r","i">>, <<"u","r","i","-","r","e","f","e","r","e","n","c","e">>>>,
    <<<<"u","r","l">>, <<"u","r","i","-","r","e","f","e","r","e","n","c","e">>>> }

_fallback_language_module ==
  [name |-> "en", roles |-> "dict", table |-> Dict(EnglishRoleTable)]

\* The language modules role() is called with.  `roles` tells whether the
\* module has a `roles` attribute ("missing": it has none; "unsubscriptable":
\* the attribute is not a mapping, e.g. None) and `table` is the mapping.
LanguageModules ==
  { [name |-> "noroles", roles |-> "missing", table |-> Dict({})],
    [name |-> "badroles", roles |-> "unsubscriptable", table |-> Dict({})],
    [name |-> "aa", roles |-> "dict",
     table |-> Dict({ <<(<<"h">>), <<"e","m","p","h","a","s","i","s">> >>,
                      <<(<<"t">>), <<"s","t","r","o","n","g">> >> })],
    [name |-> "bb", roles |-> "dict",
     table |-> Dict({ <<(<<"h">>), <<>> >>,
                      <<(<<"x">>), <<"z","z">> >> })] }

ModuleByName(n) == CHOOSE m \in LanguageModules \cup {_fallback_language_module} : m.name = n

----------------------------------------------------------------------------
\* System messages.

\* One line of msg_text.
Note(tag, role_name) == [note |-> tag, about |-> role_name]

\* inliner.reporter.info('\n'.join(msg_text), line=lineno)
reporter_info(text, lineno) == [severity |-> "info", text |-> text, line |-> lineno]

\* inliner.reporter.error(text, line=lineno)
reporter_error(text, lineno) == [severity |-> "error", text |-> text, line |-> lineno]

----------------------------------------------------------------------------
\* role(role_name, language_module, lineno, inliner)

\* language_module.roles[normname] inside the try block: the value found,
\* or the exception raised.
LocaleLookup(language_module, normname) ==
  CASE language_module.roles = "missing" ->
         [exc |-> "AttributeError", value |-> None]
    [] language_module.roles = "unsubscriptable" ->
         [exc |-> "TypeError", value |-> None]
    [] OTHER ->
         IF normname \in DOMAIN language_module.table
         THEN [exc |-> "", value |-> language_module.table[normname]]
         ELSE [exc |-> "KeyError", value |-> None]

\* FromLanguage without the else branch of line 88: the empty role name gets
\* no canonical name.
FromLanguage_NoDefault(role_name, normname, language_module) ==
  IF role_name # <<>>
  THEN LET l == LocaleLookup(language_module, normname)
       IN CASE l.exc = "" ->
                 [canonicalname |-> l.value, msg_text |-> <<>>, raised |-> ""]
            [] l.exc = "AttributeError" ->
                 [canonicalname |-> None,
                  msg_text |-> <<Note("problem-retrieving", role_name)>>,
                  raised |-> ""]
            [] l.exc = "KeyError" ->
                 [canonicalname |-> None,
                  msg_text |-> <<Note("no-role-entry", role_name)>>,
                  raised |-> ""]
            [] OTHER ->
                 [canonicalname |-> None, msg_text |-> <<>>, raised |-> l.exc]
  ELSE [canonicalname |-> None, msg_text |-> <<>>, raised |-> ""]

\* Lines 78-89: canonicalname and msg_text after the language module was
\* consulted; raised is the exception that leaves role(), if any.
FromLanguage(role_name, normname, language_module) ==
  IF role_name # <<>>
  THEN LET l == LocaleLookup(language_module, normname)
       IN CASE l.exc = "" ->
                 [canonicalname |-> l.value, msg_text |-> <<>>, raised |-> ""]
            [] l.exc = "AttributeError" ->
                 [canonicalname |-> None,
                  msg_text |-> <<Note("problem-retrieving", role_name)>>,
                  raised |-> ""]
            [] l.exc = "KeyError" ->
                 [canonicalname |-> None,
                  msg_text |-> <<Note("no-role-entry", role_name)>>,
                  raised |-> ""]
            [] OTHER ->
                 [canonicalname |-> None, msg_text |-> <<>>, raised |-> l.exc]
  ELSE [canonicalname |-> DEFAULT_INTERPRETED_ROLE, msg_text |-> <<>>, raised |-> ""]

\* Lines 91-101: the English fallback.
FromFallback(s, role_name, normname) ==
  IF ~Truthy(s.canonicalname)
  THEN IF normname \in DOMAIN _fallback_language_module.table
       THEN [canonicalname |-> _fallback_language_module.table[normname],
             msg_text |-> Append(s.msg_text, Note("using-english-fallback", role_name))]
       ELSE [canonicalname |-> normname,
             msg_text |-> Append(s.msg_text, Note("trying-as-canonical", role_name))]
  ELSE [canonicalname |-> s.canonicalname, msg_text |-> s.msg_text]

\* CollectMessages reporting each line of msg_text as a message of its own.
CollectMessages_PerLine(msg_text, lineno) ==
  [i \in 1..Len(msg_text) |-> reporter_info(<<msg_text[i]>>, lineno)]

\* Lines 103-106.
CollectMessages(msg_text, lineno) ==
  IF msg_text # <<>> THEN <<reporter_info(msg_text, lineno)>> ELSE <<>>

\* What role() hands back: its return value (fn, messages), the statement it
\* returned from (ret), the value of canonicalname there, the exception it
\* raised instead of returning, and the two dicts afterwards.
Outcome(fn, messages, ret, canonicalname, raised, roles, registry) ==
  [fn |-> fn, messages |-> messages, ret |-> ret, canonicalname |-> canonicalname,
   raised |-> raised, roles |-> roles, registry |-> registry]

\* CacheLookup without the test of _roles: every lookup goes to the language
\* modules.
CacheLookup_Miss(normname) == [hit |-> FALSE, fn |-> NoneFn]

\* Lines 75-76: if _roles.has_key(normname): return _roles[normname], messages
CacheLookup(normname) ==
  IF normname \in DOMAIN _roles
  THEN [hit |-> TRUE, fn |-> _roles[normname]]
  ELSE [hit |-> FALSE, fn |-> NoneFn]

\* RegistryLookup without the call of register_local_role.
RegistryLookup_NoMemo(canonicalname, normname, messages) ==
  IF canonicalname \in DOMAIN _role_registry
  THEN Outcome(_role_registry[canonicalname], messages, "found", canonicalname, "",
               _roles, _role_registry)
  ELSE Outcome(NoneFn, messages, "notfound", canonicalname, "",
               _roles, _role_registry)

\* RegistryLookup calling register_canonical_role where it should call
\* register_local_role.
RegistryLookup_Canonical(canonicalname, normname, messages) ==
  IF canonicalname \in DOMAIN _role_registry
  THEN LET role_fn == _role_registry[canonicalname]
       IN Outcome(role_fn, messages, "found", canonicalname, "", _roles,
                  register_canonical_role(_role_registry, normname, role_fn))
  ELSE Outcome(NoneFn, messages, "notfound", canonicalname, "",
               _roles, _role_registry)

\* RegistryLookup that memoizes the failure as well.
RegistryLookup_MemoNone(canonicalname, normname, messages) ==
  IF canonicalname \in DOMAIN _role_registry
  THEN LET role_fn == _role_registry[canonicalname]
       IN Outcome(role_fn, messages, "found", canonicalname, "",
                  register_local_role(_roles, normname, role_fn), _role_registry)
  ELSE Outcome(NoneFn, messages, "notfound", canonicalname, "",
               register_local_role(_roles, normname, NoneFn), _role_registry)

\* Lines 108-114: look the role up in the registry, and return it.
RegistryLookup(canonicalname, normname, messages) ==
  IF canonicalname \in DOMAIN _role_registry
  THEN LET role_fn == _role_registry[canonicalname]
       IN Outcome(role_fn, messages, "found", canonicalname, "",
                  register_local_role(_roles, normname, role_fn), _role_registry)
  ELSE Outcome(NoneFn, messages, "notfound", canonicalname, "",
               _roles, _role_registry)

role(role_name, language_module, lineno) ==
  LET normname == lower(role_name)
      cached == CacheLookup(normname)
  IN IF cached.hit
     THEN Outcome(cached.fn, <<>>, "cache", None, "", _roles, _role_registry)
     ELSE LET a == FromLanguage(role_name, normname, language_module)
          IN IF a.raised # ""
             THEN Outcome(NoneFn, <<>>, "raise", None, a.raised,
                          _roles, _role_registry)
             ELSE LET b == FromFallback(a, role_name, normname)
                  IN RegistryLookup(b.canonicalname, normname,
                                    CollectMessages(b.msg_text, lineno))

----------------------------------------------------------------------------
\* Calls of the registry API.

\* Role names looked up by the parser.
RoleNames == { <<>>, <<"t">>, <<"T">>, <<"x">>, <<"X">>, <<"h">> }

\* Canonical names registered by extension code.
CanonicalNames == { DEFAULT_INTERPRETED_ROLE, <<"x">> }

\* Local names registered by directives.
LocalNames == { <<"X">>, <<"t">>, <<>> }

\* Names of roles defined in a document.
CustomNames == { <<"x">>, <<"X">> }

RoleFns == { Function("pep_reference_role"), Function("unimplemented_role") }

NodeClasses == { "strong" }

AttributeDicts == { {<<"class", "highlight">>} }

LineNumbers == { 7 }

NoCall ==
  [state |-> "none", fn |-> NoneFn, role |-> <<>>, rawtext |-> <<>>, text |-> <<>>,
   lineno |-> 0, sixth |-> [given |-> FALSE, value |-> {}],
   result |-> [raised |-> "", nodes |-> <<>>, messages |-> <<>>]]

\* The record kept of a registration call.
Registered(op, name, role_fn) ==
  [op |-> op, name |-> name, fn |-> role_fn, language_module |-> "", lineno |-> 0,
   messages |-> <<>>, ret |-> "", canonicalname |-> None, raised |-> ""]

\* The history entry of a registration of role_fn under name.
Replacing(name, role_fn) ==
  [replaced |-> IF name \in DOMAIN _role_registry THEN _role_registry[name]
                ELSE NoneFn,
   by |-> role_fn]

Call_register_canonical_role(name, role_fn) ==
  /\ ops < MaxOps
  /\ _role_registry' = register_canonical_role(_role_registry, name, role_fn)
  /\ previous' = [k \in DOMAIN previous \cup {name} |->
                    IF k = name THEN Replacing(name, role_fn) ELSE previous[k]]
  /\ last' = Registered("register_canonical_role", name, role_fn)
  /\ ops' = ops + 1
  /\ UNCHANGED <<_roles, call>>

Call_register_local_role(name, role_fn) ==
  /\ ops < MaxOps
  /\ _roles' = register_local_role(_roles, name, role_fn)
  /\ last' = Registered("register_local_role", name, role_fn)
  /\ ops' = ops + 1
  /\ UNCHANGED <<_role_registry, previous, call>>

Call_register_generic_role(canonical_name, node_class) ==
  /\ ops < MaxOps
  /\ _role_registry' = register_generic_role(_role_registry, canonical_name, node_class)
  /\ previous' = [k \in DOMAIN previous \cup {canonical_name} |->
                    IF k = canonical_name
                    THEN Replacing(canonical_name, GenericRoleFn(node_class))
                    ELSE previous[k]]
  /\ last' = Registered("register_generic_role", canonical_name,
                        GenericRoleFn(node_class))
  /\ ops' = ops + 1
  /\ UNCHANGED <<_roles, call>>

\* register_custom_role registering the role function by canonical name
\* (register_canonical_role where line 156 calls register_local_role).
Call_register_custom_role_Canonical(local_name, attributes) ==
  /\ ops < MaxOps
  /\ _role_registry' = register_canonical_role(_role_registry, local_name,
                                               CustomRoleFn(attributes))
  /\ last' = Registered("register_custom_role", local_name, CustomRoleFn(attributes))
  /\ ops' = ops + 1
  /\ UNCHANGED <<_roles, previous, call>>

Call_register_custom_role(local_name, attributes) ==
  /\ ops < MaxOps
  /\ _roles' = register_custom_role(_roles, local_name, attributes)
  /\ last' = Registered("register_custom_role", local_name, CustomRoleFn(attributes))
  /\ ops' = ops + 1
  /\ UNCHANGED <<_role_registry, previous, call>>

Call_role(role_name, language_module, lineno) ==
  /\ ops < MaxOps
  /\ LET r == role(role_name, language_module, lineno)
     IN /\ _roles' = r.roles
        /\ _role_registry' = r.registry
        /\ last' = [op |-> "role", name |-> role_name, fn |-> r.fn,
                    language_module |-> language_module.name, lineno |-> lineno,
                    messages |-> r.messages, ret |-> r.ret,
                    canonicalname |-> r.canonicalname, raised |-> r.raised]
  /\ ops' = ops + 1
  /\ UNCHANGED <<previous, call>>

Init ==
  /\ _role_registry = InitialRegistry
  /\ _roles = EmptyDict
  /\ last = Registered("import", <<>>, NoneFn)
  /\ previous = EmptyDict
  /\ ops = 0
  /\ call = NoCall

Next ==
  \/ \E name \in CanonicalNames, role_fn \in RoleFns :
       Call_register_canonical_role(name, role_fn)
  \/ \E name \in LocalNames, role_fn \in RoleFns :
       Call_register_local_role(name, role_fn)
  \/ \E canonical_name \in CanonicalNames, node_class \in NodeClasses :
       Call_register_generic_role(canonical_name, node_class)
  \/ \E local_name \in CustomNames, attributes \in AttributeDicts :
       Call_register_custom_role(local_name, attributes)
  \/ \E role_name \in RoleNames, language_module \in LanguageModules,
        lineno \in LineNumbers :
       Call_role(role_name, language_module, lineno)

Spec == Init /\ [][Next]_vars

----------------------------------------------------------------------------
\* Nodes and the inliner.

NoMessage == [severity |-> "", text |-> <<>>, line |-> 0]

NoRef == [template |-> "", number |-> 0]

\* node_class(rawsource, text, **attributes) of docutils.nodes
Node(node_class, rawsource, text, attributes) ==
  [type |-> node_class, rawsource |-> rawsource, text |-> text,
   attributes |-> attributes, refuri |-> NoRef, message |-> NoMessage]

\* nodes.reference(rawsource, text, refuri=ref)
reference(rawsource, text, ref) ==
  [type |-> "reference", rawsource |-> rawsource, text |-> text,
   attributes |-> {}, refuri |-> ref, message |-> NoMessage]

\* inliner.problematic(text, rawsource, message): a problematic node that
\* refers to the system message.
problematic(text, rawsource, message) ==
  [type |-> "problematic", rawsource |-> rawsource, text |-> text,
   attributes |-> {}, refuri |-> NoRef, message |-> message]

\* inliner.pep_url % pepnum, inliner.rfc_url % rfcnum
UrlOf(template, number) == [template |-> template, number |-> number]

----------------------------------------------------------------------------
\* int(text)

Digits == <<"0","1","2","3","4","5","6","7","8","9">>

IsDigit(c) == \E i \in 1..Len(Digits) : Digits[i] = c

DigitValue(c) == (CHOOSE i \in 1..Len(Digits) : Digits[i] = c) - 1

RECURSIVE DigitsValue(_)
DigitsValue(s) ==
  IF s = <<>> THEN 0
  ELSE 10 * DigitsValue(SubSeq(s, 1, Len(s) - 1)) + DigitValue(s[Len(s)])

\* int(text) for a string without white space: an optional sign followed by
\* one or more decimal digits; anything else raises ValueError.
int(text) ==
  LET signed == text # <<>> /\ Head(text) \in {"+", "-"}
      digits == IF signed THEN Tail(text) ELSE text
  IN IF digits # <<>> /\ \A i \in 1..Len(digits) : IsDigit(digits[i])
     THEN [exc |-> "",
           value |-> IF signed /\ Head(text) = "-"
                     THEN 0 - DigitsValue(digits) ELSE DigitsValue(digits)]
     ELSE [exc |-> "ValueError", value |-> 0]

----------------------------------------------------------------------------
\* The role functions.  Each returns (nodes, messages) or raises.

Returns(nodes, messages) == [raised |-> "", nodes |-> nodes, messages |-> messages]

Raises(exc) == [raised |-> exc, nodes |-> <<>>, messages |-> <<>>]

\* Python values that reach the node_class and attributes parameters.
PyClass(name) == [type |-> "class", class |-> name, dict |-> {}]

PyDict(d) == [type |-> "dict", class |-> "", dict |-> d]

\* return [node_class(rawtext, text, **attributes)], []
\* Calling a value that is not a class raises TypeError.
generic_role_helper(node_class, role_name, rawtext, text, lineno, attributes) ==
  IF node_class.type = "class"
  THEN Returns(<<Node(node_class.class, rawtext, text, attributes.dict)>>, <<>>)
  ELSE Raises("TypeError")

\* pep_reference_role with the upper limit off by one (pepnum >= 9999).
pep_reference_role_OffByOne(role_name, rawtext, text, lineno) ==
  LET pepnum == int(text)
  IN IF pepnum.exc = "ValueError" \/ pepnum.value < 0 \/ pepnum.value >= 9999
     THEN LET msg == reporter_error(<<Note("pep-number-invalid", text)>>, lineno)
              prb == problematic(text, text, msg)
          IN Returns(<<prb>>, <<msg>>)
     ELSE Returns(<<reference(rawtext, <<"P","E","P"," ">> \o text,
                              UrlOf("pep_url", pepnum.value))>>, <<>>)

pep_reference_role(role_name, rawtext, text, lineno) ==
  LET pepnum == int(text)
  IN IF pepnum.exc = "ValueError" \/ pepnum.value < 0 \/ pepnum.value > 9999
     THEN LET msg == reporter_error(<<Note("pep-number-invalid", text)>>, lineno)
              prb == problematic(text, text, msg)
          IN Returns(<<prb>>, <<msg>>)
     ELSE Returns(<<reference(rawtext, <<"P","E","P"," ">> \o text,
                              UrlOf("pep_url", pepnum.value))>>, <<>>)

rfc_reference_role(role_name, rawtext, text, lineno) ==
  LET rfcnum == int(text)
  IN IF rfcnum.exc = "ValueError" \/ rfcnum.value <= 0
     THEN LET msg == reporter_error(<<Note("rfc-number-invalid", text)>>, lineno)
              prb == problematic(text, text, msg)
          IN Returns(<<prb>>, <<msg>>)
     ELSE Returns(<<reference(rawtext, <<"R","F","C"," ">> \o text,
                              UrlOf("rfc_url", rfcnum.value))>>, <<>>)

\* unimplemented_role returning the problematic node without its message.
unimplemented_role_NoMessage(role_name, rawtext, text, lineno) ==
  LET msg == reporter_error(<<Note("not-implemented", role_name)>>, lineno)
      prb == problematic(rawtext, rawtext, msg)
  IN Returns(<<prb>>, <<>>)

unimplemented_role(role_name, rawtext, text, lineno) ==
  LET msg == reporter_error(<<Note("not-implemented", role_name)>>, lineno)
      prb == problematic(rawtext, rawtext, msg)
  IN Returns(<<prb>>, <<msg>>)

\* The closure of register_generic_role:
\*   def role_fn(role, rawtext, text, lineno, inliner, nc=node_class)
\* A sixth positional argument binds nc.
generic_role_fn(fn, role_name, rawtext, text, lineno, sixth) ==
  LET nc == IF sixth.given THEN PyDict(sixth.value) ELSE PyClass(fn.node_class)
  IN generic_role_helper(nc, role_name, rawtext, text, lineno, PyDict({}))

\* The closure of register_custom_role:
\*   def role_fn(role, rawtext, text, lineno, inliner, atts=attributes)
\* A sixth positional argument binds atts.
custom_role_fn(fn, role_name, rawtext, text, lineno, sixth) ==
  LET atts == IF sixth.given THEN PyDict(sixth.value) ELSE PyDict(fn.attributes)
  IN generic_role_helper(PyClass("inline"), role_name, rawtext, text, lineno, atts)

\* fn(role, rawtext, text, lineno, inliner) or, when sixth.given,
\* fn(role, rawtext, text, lineno, inliner, sixth.value).  The module-level
\* role functions take five parameters: a sixth argument raises TypeError.
Apply(fn, role_name, rawtext, text, lineno, sixth) ==
  CASE fn.kind = "generic" ->
         generic_role_fn(fn, role_name, rawtext, text, lineno, sixth)
    [] fn.kind = "custom" ->
         custom_role_fn(fn, role_name, rawtext, text, lineno, sixth)
    [] sixth.given -> Raises("TypeError")
    [] fn.kind = "pep_reference_role" ->
         pep_reference_role(role_name, rawtext, text, lineno)
    [] fn.kind = "rfc_reference_role" ->
         rfc_reference_role(role_name, rawtext, text, lineno)
    [] OTHER ->
         unimplemented_role(role_name, rawtext, text, lineno)

----------------------------------------------------------------------------
\* Invocations of role functions by the parser.

TextChars == { "0", "1", "9", "-" }

RECURSIVE StringsUpTo(_)
\* All strings over TextChars of length at most n.
StringsUpTo(n) ==
  IF n = 0 THEN { <<>> }
  ELSE LET shorter == StringsUpTo(n - 1)
       IN shorter \cup { Append(s, c) : s \in shorter, c \in TextChars }

Texts == StringsUpTo(MaxTextLen)

\* The entire interpreted text construct, :role:|text| (the vertical bar
\* stands for the backquote).
RawText(role_name, text) == <<":">> \o role_name \o <<":", "|">> \o text \o <<"|">>

CalledFns ==
  { Function("pep_reference_role"), Function("rfc_reference_role"),
    Function("unimplemented_role"), GenericRoleFn("emphasis"),
    CustomRoleFn({<<"class", "highlight">>}), CustomRoleFn({}) }

CalledAs == { <<"r">> }

NoArgument == [given |-> FALSE, value |-> {}]

Argument(attributes) == [given |-> TRUE, value |-> attributes]

SixthArguments == { NoArgument, Argument({}), Argument({<<"class", "other">>}) }

NoResult == Raises("")

InitCall ==
  /\ _role_registry = InitialRegistry
  /\ _roles = EmptyDict
  /\ last = Registered("import", <<>>, NoneFn)
  /\ previous = EmptyDict
  /\ ops = 0
  /\ \E fn \in CalledFns, role_name \in CalledAs, text \in Texts,
        lineno \in LineNumbers, sixth \in SixthArguments :
       call = [state |-> "calling", fn |-> fn, role |-> role_name,
               rawtext |-> RawText(role_name, text), text |-> text,
               lineno |-> lineno, sixth |-> sixth, result |-> NoResult]

Invoke ==
  /\ call.state = "calling"
  /\ call' = [call EXCEPT
                !.state = "returned",
                !.result = Apply(call.fn, call.role, call.rawtext, call.text,
                                 call.lineno, call.sixth)]
  /\ UNCHANGED <<_role_registry, _roles, last, previous, ops>>

NextCall == Invoke

SpecCall == InitCall /\ [][NextCall]_vars

----------------------------------------------------------------------------
\* Properties of the registries (checked under Spec).

\* This step is a call of role().
RoleStep == ops' = ops + 1 /\ last'.op = "role"

\* The tags of the lines of a message.
NoteTags(message) == [i \in 1..Len(message.text) |-> message.text[i].note]

\* The language module has a roles mapping and the mapping has no entry for
\* the key.
NoEntry(language_module, key) ==
  language_module.roles = "dict" /\ key \notin DOMAIN language_module.table

EnglishRoles == _fallback_language_module.table

\* C1: whenever role() is called with a name whose lowercased form is a key
\* of _roles, it returns the role function stored under that key and an empty
\* message list, whatever the language module and _role_registry contain.
C1_LocalRegistryAuthoritative ==
  [][(RoleStep /\ lower(last'.name) \in DOMAIN _roles)
       => /\ last'.raised = ""
          /\ last'.fn = _roles[lower(last'.name)]
          /\ last'.messages = <<>>]_vars

\* A name in upper case was found under its lowercased key although the
\* language module has an unusable roles attribute.
C1_Witness ==
  /\ last.op = "role" /\ last.ret = "cache"
  /\ last.name = <<"X">> /\ last.language_module = "badroles"
  /\ last.fn = _roles[<<"x">>] /\ last.fn # NoneFn

\* C2 as stated: every call of role() with the empty role name returns the
\* role function currently registered under DEFAULT_INTERPRETED_ROLE in
\* _role_registry, and no messages.
C2_EmptyNameAlwaysDefault ==
  [][(RoleStep /\ last'.name = <<>>)
       => /\ last'.fn = _role_registry[DEFAULT_INTERPRETED_ROLE]
          /\ last'.messages = <<>>]_vars

\* C2 as amended: a call of role() with the empty role name, made while the
\* empty name is not a key of _roles, returns the role function currently
\* registered under DEFAULT_INTERPRETED_ROLE, and no messages.
C2_EmptyNameDefaultUnlessLocal ==
  [][(RoleStep /\ last'.name = <<>> /\ <<>> \notin DOMAIN _roles)
       => /\ last'.raised = ""
          /\ DEFAULT_INTERPRETED_ROLE \in DOMAIN _role_registry
          /\ last'.fn = _role_registry[DEFAULT_INTERPRETED_ROLE]
          /\ last'.messages = <<>>]_vars

\* The empty name resolved to a role function that replaced the standard
\* title-reference role.
C2_Witness ==
  /\ last.op = "role" /\ last.name = <<>> /\ last.ret = "found"
  /\ last.canonicalname = DEFAULT_INTERPRETED_ROLE
  /\ DEFAULT_INTERPRETED_ROLE \in DOMAIN previous
  /\ last.fn = Function("pep_reference_role")
  /\ last.messages = <<>>

\* C3: when role() is called with a non-empty name whose lowercased form is
\* not a key of _roles, the language module has no entry for it and the
\* English module has one, role() returns the role function registered under
\* the English entry with exactly one message, of severity info, that notes
\* the use of the English fallback, and afterwards _roles maps the lowercased
\* name to the returned role function.
C3_EnglishFallback ==
  [][(/\ RoleStep
      /\ last'.name # <<>>
      /\ lower(last'.name) \notin DOMAIN _roles
      /\ NoEntry(ModuleByName(last'.language_module), lower(last'.name))
      /\ lower(last'.name) \in DOMAIN EnglishRoles)
       => /\ last'.raised = ""
          /\ last'.fn # NoneFn
          /\ last'.fn = _role_registry[EnglishRoles[lower(last'.name)]]
          /\ Len(last'.messages) = 1
          /\ last'.messages[1].severity = "info"
          /\ \E i \in 1..Len(last'.messages[1].text) :
               last'.messages[1].text[i].note = "using-english-fallback"
          /\ lower(last'.name) \in DOMAIN _roles'
          /\ _roles'[lower(last'.name)] = last'.fn]_vars

\* "T" was resolved through the English entry for "t" and memoized.
C3_Witness ==
  /\ last.op = "role" /\ last.ret = "found"
  /\ last.name = <<"T">> /\ last.language_module = "bb"
  /\ last.canonicalname = DEFAULT_INTERPRETED_ROLE
  /\ Len(last.messages) = 1
  /\ _roles[<<"t">>] = last.fn

\* The case of C4: a call of role() with a non-empty name whose lowercased
\* form is not a key of _roles and has no entry in the language module nor in
\* the English module.
C4_Case ==
  /\ RoleStep
  /\ last'.name # <<>>
  /\ lower(last'.name) \notin DOMAIN _roles
  /\ NoEntry(ModuleByName(last'.language_module), lower(last'.name))
  /\ lower(last'.name) \notin DOMAIN EnglishRoles

\* In the case of C4 the lowercased name is the canonical name: the role
\* function registered under it is returned, or none if there is none.
C4_RawNameLookup ==
  /\ last'.raised = ""
  /\ last'.canonicalname = lower(last'.name)
  /\ IF lower(last'.name) \in DOMAIN _role_registry
     THEN last'.fn = _role_registry[lower(last'.name)] /\ last'.fn # NoneFn
     ELSE last'.fn = NoneFn

\* C4 as stated: in that case role() returns the role function registered
\* under the lowercased name, or none, together with two messages of
\* severity info.
C4_TwoDiagnostics ==
  [][C4_Case
       => /\ C4_RawNameLookup
          /\ Len(last'.messages) = 2
          /\ \A i \in 1..Len(last'.messages) :
               last'.messages[i].severity = "info"]_vars

\* C4 as amended: in that case role() returns the role function registered
\* under the lowercased name, or none, together with exactly one message of
\* severity info, whose text has two lines: no entry in the language module,
\* and the name is tried as canonical name.
C4_OneDiagnosticTwoLines ==
  [][C4_Case
       => /\ C4_RawNameLookup
          /\ Len(last'.messages) = 1
          /\ last'.messages[1].severity = "info"
          /\ NoteTags(last'.messages[1])
               = <<"no-role-entry", "trying-as-canonical">>]_vars

\* "X" was found under the canonical name "x" registered by an extension.
C4_Witness ==
  /\ last.op = "role" /\ last.ret = "found"
  /\ last.name = <<"X">> /\ last.language_module = "aa"
  /\ last.canonicalname = <<"x">>
  /\ Len(last.messages) = 1 /\ Len(last.messages[1].text) = 2
\* C5: a role function registered with register_local_role or
\* register_custom_role under a name N is stored under the lowercased form of
\* N: a call of role() that follows with any name whose lowercased form is
\* that of N returns this role function and no messages.
C5_LocalNameNormalized ==
  [][(/\ last.op \in {"register_local_role", "register_custom_role"}
      /\ RoleStep
      /\ lower(last'.name) = lower(last.name))
       => /\ last'.fn = last.fn
          /\ last'.messages = <<>>]_vars

\* C6: a call of role() returns one role function or none, and leaves
\* _role_registry as it was; it returns none exactly when it found no entry
\* or was left by an exception.
C6_RegistryUnchangedByRole ==
  [][RoleStep
       => /\ _role_registry' = _role_registry
          /\ (last'.fn = NoneFn) <=> (last'.ret \in {"notfound", "raise"})
          /\ last'.fn # NoneFn
               => \/ \E k \in DOMAIN _role_registry : _role_registry[k] = last'.fn
                  \/ \E k \in DOMAIN _roles : _roles[k] = last'.fn]_vars

\* role() found a role function in _role_registry and memoized it in _roles.
C6_Witness ==
  /\ last.op = "role" /\ last.ret = "found"
  /\ last.name = <<"t">> /\ last.language_module = "aa"
  /\ <<"t">> \in DOMAIN _roles /\ <<"t">> \notin DOMAIN _role_registry
  /\ _roles[<<"t">>] = _role_registry[<<"s","t","r","o","n","g">>]

\* C7: once a canonical name c registered with role function h1 has been
\* registered again with a different role function h2, every call of role()
\* that is not answered from _roles and whose canonical name is c returns h2;
\* and a registration of a canonical name always leaves the role function it
\* was given in _role_registry.
C7_SecondRegistrationWins ==
  /\ (/\ last.op = "role"
      /\ last.ret \in {"found", "notfound"}
      /\ last.canonicalname \in DOMAIN previous
      /\ previous[last.canonicalname].replaced
           \notin {NoneFn, previous[last.canonicalname].by})
       => last.fn = previous[last.canonicalname].by
  /\ last.op \in {"register_canonical_role", "register_generic_role"}
       => /\ last.name \in DOMAIN _role_registry
          /\ _role_registry[last.name] = last.fn

\* "x" was registered twice with different role functions and then resolved.
C7_Witness ==
  /\ last.op = "role" /\ last.ret = "found"
  /\ last.canonicalname = <<"x">>
  /\ <<"x">> \in DOMAIN previous
  /\ previous[<<"x">>].replaced \notin {NoneFn, previous[<<"x">>].by}
  /\ last.fn = previous[<<"x">>].by

----------------------------------------------------------------------------
\* Properties of the role functions (checked under SpecCall).

\* The call returned one node of the given type and no messages.
OneNode(result, type) ==
  /\ result.raised = ""
  /\ Len(result.nodes) = 1
  /\ result.nodes[1].type = type
  /\ result.messages = <<>>

\* The call returned one problematic node and one message of severity error.
OneProblem(result) ==
  /\ result.raised = ""
  /\ Len(result.nodes) = 1
  /\ result.nodes[1].type = "problematic"
  /\ Len(result.messages) = 1
  /\ result.messages[1].severity = "error"

\* C8: called with the five arguments, pep_reference_role returns one
\* reference node and no messages when the text is an integer from 0 to 9999,
\* and otherwise one problematic node and one error message;
\* rfc_reference_role does the same for the integers from 1 on.
C8_NumericReferenceNoPartialSuccess ==
  (call.state = "returned" /\ ~call.sixth.given)
    => LET n == int(call.text)
       IN /\ call.fn = Function("pep_reference_role")
               => IF n.exc = "" /\ 0 <= n.value /\ n.value <= 9999
                  THEN OneNode(call.result, "reference")
                  ELSE OneProblem(call.result)
          /\ call.fn = Function("rfc_reference_role")
               => IF n.exc = "" /\ n.value >= 1
                  THEN OneNode(call.result, "reference")
                  ELSE OneProblem(call.result)

\* pep_reference_role was called with "10000".
C8_Witness ==
  /\ call.state = "returned" /\ ~call.sixth.given
  /\ call.fn = Function("pep_reference_role")
  /\ call.text = <<"1","0","0","0","0">>
  /\ OneProblem(call.result)

\* C9: the role function of a custom role registered with the attributes F
\* returns, whatever attributes it is passed as sixth argument, one inline
\* node whose attributes are F, and no messages.
C9_CustomAttributesFixed ==
  (call.state = "returned" /\ call.fn.kind = "custom")
    => /\ OneNode(call.result, "inline")
       /\ call.result.nodes[1].attributes = call.fn.attributes

\* C10: the role function of a generic role registered with the node class T
\* returns, whatever attributes A it is passed as sixth argument, one node of
\* class T made from rawtext and text that carries the attributes A, and no
\* messages.
C10_GenericCarriesAttributes ==
  (call.state = "returned" /\ call.fn.kind = "generic")
    => /\ OneNode(call.result, call.fn.node_class)
       /\ call.result.nodes[1].rawsource = call.rawtext
       /\ call.result.nodes[1].text = call.text
       /\ call.result.nodes[1].attributes
            = (IF call.sixth.given THEN call.sixth.value ELSE {})

\* The canonical name that stays unimplemented, for testing purposes.
UnimplementedCanary ==
  <<"r","e","s","t","r","u","c","t","u","r","e","d","t","e","x","t","-",
    "u","n","i","m","p","l","e","m","e","n","t","e","d","-","r","o","l","e">>

\* C11: called with the five arguments, whatever the role name, the raw text
\* and the text, unimplemented_role returns one problematic node and one
\* message of severity error, and at import _role_registry maps the name
\* 'restructuredtext-unimplemented-role' to unimplemented_role.
C11_UnimplementedAlwaysFails ==
  /\ (/\ call.state = "returned"
      /\ ~call.sixth.given
      /\ call.fn = Function("unimplemented_role"))
       => /\ OneProblem(call.result)
          /\ call.result.nodes[1].message = call.result.messages[1]
  /\ UnimplementedCanary \in DOMAIN InitialRegistry
  /\ InitialRegistry[UnimplementedCanary] = Function("unimplemented_role")
  /\ ops = 0 => _role_registry = InitialRegistry

\* unimplemented_role was called with a text that is a valid number.
C11_Witness ==
  /\ call.state = "returned" /\ ~call.sixth.given
  /\ call.fn = Function("unimplemented_role")
  /\ call.text = <<"1">>
  /\ OneProblem(call.result)
  /\ _role_registry[UnimplementedCanary] = call.fn

\* C12: role() never aborts: whatever the language module (entry present,
\* entry absent, no roles attribute, roles attribute unusable) and whatever
\* the name, it returns; and when the roles of the language module cannot be
\* used it reports one info message and goes on with the English module as
\* if the entry were absent.
C12_RoleNeverAborts ==
  [][RoleStep
       => /\ last'.raised = ""
          /\ (/\ last'.name # <<>>
              /\ lower(last'.name) \notin DOMAIN _roles
              /\ ModuleByName(last'.language_module).roles # "dict")
               => /\ Len(last'.messages) = 1
                  /\ last'.messages[1].severity = "info"
                  /\ last'.canonicalname
                       = (IF lower(last'.name) \in DOMAIN EnglishRoles
                          THEN EnglishRoles[lower(last'.name)]
                          ELSE lower(last'.name))]_vars

\* C13: when role() is called with a non-empty name whose lowercased form is
\* not a key of _roles and the language module has an entry for it, the value
\* of that entry, whatever it is, is the canonical name looked up in
\* _role_registry, the English module and the name itself are not tried, and
\* no message is produced; if that canonical name is not registered the
\* result is None.
C13_LanguageEntryDecides ==
  [][(/\ RoleStep
      /\ last'.name # <<>>
      /\ lower(last'.name) \notin DOMAIN _roles
      /\ ModuleByName(last'.language_module).roles = "dict"
      /\ lower(last'.name) \in DOMAIN ModuleByName(last'.language_module).table)
       => LET value ==
                ModuleByName(last'.language_module).table[lower(last'.name)]
          IN /\ last'.raised = ""
             /\ last'.canonicalname = value
             /\ last'.messages = <<>>
             /\ IF value \in DOMAIN _role_registry
                THEN last'.fn = _role_registry[value]
                ELSE last'.fn = NoneFn]_vars

\* This step is a call of register_local_role or register_custom_role with
\* the name k.
LocalRegistrationOf(k) ==
  /\ ops' = ops + 1
  /\ last'.op \in {"register_local_role", "register_custom_role"}
  /\ last'.name = k

\* C14: a role function that role() returned for a name stays the answer for
\* that name: the call leaves it in _roles under the lowercased name, every
\* step but a register_local_role or register_custom_role of that key keeps
\* the entry, and a call of role() for a key of _roles returns the entry
\* without messages, whatever language module it is given.
C14_FirstResolutionWins ==
  [][/\ (RoleStep /\ last'.fn # NoneFn)
          => /\ lower(last'.name) \in DOMAIN _roles'
             /\ _roles'[lower(last'.name)] = last'.fn
     /\ \A k \in DOMAIN _roles :
          ~LocalRegistrationOf(k)
            => k \in DOMAIN _roles' /\ _roles'[k] = _roles[k]
     /\ (RoleStep /\ lower(last'.name) \in DOMAIN _roles)
          => /\ last'.fn = _roles[lower(last'.name)]
             /\ last'.messages = <<>>]_vars

\* "t" was resolved to strong through the language module "aa"; the language
\* module "bb", where the English entry would give title-reference, gets
\* strong as well.
C14_Witness ==
  /\ last.op = "role" /\ last.ret = "cache"
  /\ last.name = <<"T">> /\ last.language_module = "bb"
  /\ last.fn = GenericRoleFn("strong")
  /\ last.fn # _role_registry[EnglishRoles[<<"t">>]]
  /\ last.messages = <<>>

\* C15: every message of role() has severity info, also when it returns
\* None; and a call that finds the name in the language module, or is given
\* the empty name, returns no message at all.
C15_OnlyInfoDiagnostics ==
  last.op = "role"
    => /\ \A i \in 1..Len(last.messages) : last.messages[i].severity = "info"
       /\ (/\ last.name # <<>>
           /\ ModuleByName(last.language_module).roles = "dict"
           /\ lower(last.name) \in DOMAIN ModuleByName(last.language_module).table)
            => last.messages = <<>>
       /\ last.name = <<>> => last.messages = <<>>

\* C16: register_custom_role changes _roles only, in the entry of the local
\* name, and leaves _role_registry as it was; and role() returns the role
\* function of a custom role only from _roles, never from a lookup in
\* _role_registry.
C16_CustomRoleIsLocalOnly ==
  [][/\ (ops' = ops + 1 /\ last'.op = "register_custom_role")
          => /\ _role_registry' = _role_registry
             /\ DOMAIN _roles' = DOMAIN _roles \cup {last'.name}
             /\ _roles'[last'.name] = last'.fn
             /\ last'.fn.kind = "custom"
             /\ \A k \in DOMAIN _roles \ {last'.name} : _roles'[k] = _roles[k]
     /\ (RoleStep /\ last'.fn.kind = "custom")
          => /\ last'.ret = "cache"
             /\ last'.fn = _roles[lower(last'.name)]
     /\ \A k \in DOMAIN _role_registry' : _role_registry'[k].kind # "custom"]_vars

\* The custom role "x" was found in _roles while "x" is also a canonical name.
C16_Witness ==
  /\ last.op = "role" /\ last.ret = "cache"
  /\ last.name = <<"x">>
  /\ last.fn = CustomRoleFn({<<"class", "highlight">>})
  /\ <<"x">> \in DOMAIN _role_registry
  /\ _role_registry[<<"x">>] # last.fn

\* C17: when the text is not a valid number, pep_reference_role and
\* rfc_reference_role return a problematic node that wraps the raw text, the
\* entire interpreted text construct, and refers to the error message that
\* is returned in the message list.
C17_ProblematicWrapsRawText ==
  (/\ call.state = "returned"
   /\ ~call.sixth.given
   /\ call.fn \in {Function("pep_reference_role"), Function("rfc_reference_role")}
   /\ call.result.messages # <<>>)
    => /\ OneProblem(call.result)
       /\ call.result.nodes[1].text = call.rawtext
       /\ call.result.nodes[1].rawsource = call.rawtext
       /\ call.result.nodes[1].message = call.result.messages[1]

\* C18: a call of role() changes _roles in at most the entry of the
\* lowercased name, and only when it returns a role function it found in
\* _role_registry; answered from _roles, or returning None, it leaves _roles
\* as it was.  So a name that was not found is not memoized: as soon as its
\* canonical name is registered, a call whose canonical name is that name
\* returns the registered role function.
C18_OnlySuccessIsMemoized ==
  [][RoleStep
       => /\ \A k \in DOMAIN _roles : k \in DOMAIN _roles' /\ _roles'[k] = _roles[k]
          /\ DOMAIN _roles' \subseteq DOMAIN _roles \cup {lower(last'.name)}
          /\ _roles' # _roles
               => /\ last'.ret = "found"
                  /\ last'.canonicalname \in DOMAIN _role_registry
                  /\ last'.fn = _role_registry[last'.canonicalname]
                  /\ _roles'[lower(last'.name)] = last'.fn
          /\ last'.ret \in {"cache", "notfound", "raise"} => _roles' = _roles
          /\ last'.ret = "notfound"
               => /\ last'.canonicalname \notin DOMAIN _role_registry
                  /\ lower(last'.name) \notin DOMAIN _roles'
          /\ (/\ last'.ret \in {"found", "notfound"}
              /\ last'.canonicalname \in DOMAIN _role_registry)
               => /\ last'.ret = "found"
                  /\ last'.fn = _role_registry[last'.canonicalname]]_vars

\* "x" was not found and not memoized, then registered as canonical name,
\* and is found now.
C18_Witness ==
  /\ ops = 3
  /\ last.op = "role" /\ last.ret = "found"
  /\ last.name = <<"X">>
  /\ last.canonicalname = <<"x">>
  /\ <<"x">> \in DOMAIN previous
  /\ previous[<<"x">>].replaced = NoneFn
  /\ DOMAIN _roles = { <<"x">> }
  /\ _roles[<<"x">>] = previous[<<"x">>].by

====
